---- MODULE Spec2Model ----
(***************************************************************************)
(* Model of sdv/single_table/copulas.py (GaussianCopulaSynthesizer) and of *)
(* the multi-table orchestrator exercised by tests/integration/test_sdv.py *)
(***************************************************************************)
EXTENDS Integers, Sequences, FiniteSets, TLC

\* ------------------------------------------------------------------ bounds
MaxCols == 2        \* columns of a processed table
MaxFields == 2      \* entries of a numerical_distributions mapping
MaxRows == 2        \* rows asked of a sample / rows of an input table

\* ------------------------------------------------------------ Python values
\* Every Python value has the same shape: its type, a printable value, and
\* (for a dict) its items.
NoItems == [f \in {} |-> 0]
PyVal(t, v) == [type |-> t, val |-> v, items |-> NoItems]
PyNone == PyVal("NoneType", "None")
PyStr(s) == PyVal("str", s)
PyInstance(cls) == PyVal("Univariate", cls)
PyDict(items) == [type |-> "dict", val |-> "dict", items |-> items]

\* Python truth value testing, as used by `and` / `or`.
Truthy(v) ==
    CASE v.type = "NoneType" -> FALSE
      [] v.type = "str" -> v.val # ""
      [] v.type = "list" -> v.val # "[]"
      [] v.type = "int" -> v.val # "0"
      [] v.type = "dict" -> DOMAIN v.items # {}
      [] OTHER -> TRUE

\* x or y
PyOr(x, y) == IF Truthy(x) THEN x ELSE y

\* ------------------------------------------------------------------ strings
\* Column and field names are sequences of characters.
DotValue == <<".", "v", "a", "l", "u", "e">>
NameA == <<"a">>
NameAB == <<"a", "b">>
NameAValue == NameA \o DotValue
NameAValueB == NameA \o DotValue \o <<"b">>
NameAValueValue == NameA \o DotValue \o DotValue

ColumnNames == {NameA, NameAValue, NameAValueB, NameAValueValue}
FieldNames == {NameA, NameAB, NameAValue}

StartsWith(s, p) == Len(s) >= Len(p) /\ SubSeq(s, 1, Len(p)) = p
EndsWith(s, p) == Len(s) >= Len(p) /\ SubSeq(s, Len(s) - Len(p) + 1, Len(s)) = p

\* str.replace(old, new): every non-overlapping occurrence, left to right.
RECURSIVE Replace(_, _, _)
Replace(s, old, new) ==
    IF s = <<>> THEN <<>>
    ELSE IF StartsWith(s, old)
         THEN new \o Replace(SubSeq(s, Len(old) + 1, Len(s)), old, new)
         ELSE <<Head(s)>> \o Replace(Tail(s), old, new)

\* Removal of one trailing occurrence of a suffix.
StripSuffix(s, suffix) ==
    IF EndsWith(s, suffix) THEN SubSeq(s, 1, Len(s) - Len(suffix)) ELSE s

Range(s) == {s[i] : i \in DOMAIN s}

\* dict.get(key, default)
Get(d, key, default) == IF key \in DOMAIN d THEN d[key] ELSE default

\* -------------------------------------------------------------- class table
_DISTRIBUTIONS ==
    [norm |-> "GaussianUnivariate",
     beta |-> "BetaUnivariate",
     truncnorm |-> "TruncatedGaussian",
     gamma |-> "GammaUnivariate",
     uniform |-> "UniformUnivariate",
     gaussian_kde |-> "GaussianKDE"]

Raise(kind) == [ok |-> FALSE, error |-> kind, value |-> "None"]
Return(v) == [ok |-> TRUE, error |-> "None", value |-> v]

_validate_distribution(distribution) ==
    IF distribution.type # "str" \/ distribution.val \notin DOMAIN _DISTRIBUTIONS
    THEN Raise("ValueError")
    ELSE Return(_DISTRIBUTIONS[distribution.val])

\* ------------------------------------------------------------------- state
VARIABLES
    pc,                         \* "new", "ready" (instance returned), "failed"
    default_distribution,       \* self.default_distribution
    numerical_distributions,    \* self.numerical_distributions
    _default_distribution,      \* self._default_distribution (a class)
    _numerical_distributions,   \* self._numerical_distributions (classes)
    _model,                     \* self._model
    _fitted,                    \* self._fitted (base class)
    heap,                       \* parameter objects, by identity
    held,                       \* the report the caller holds (references)
    result,                     \* outcome of the last call
    ctorArgs,                   \* arguments of the constructor call
    curValue,                   \* contents of the last report, when returned
    prevValue,                  \* contents of the report before it
    mutated,                    \* the caller changed the held report (now),
                                \* or the one before it (before)
    fitOk,                      \* some call of fit has succeeded
    fitTick,                    \* flips at every call of fit
    sdvMetadata,                \* orchestrator: parent of every table
    sdvTables,                  \* orchestrator: shape of every input table
    sdvFitted,                  \* orchestrator: fit succeeded
    sdvResult                   \* orchestrator: outcome of the last call

adapterVars ==
    <<pc, default_distribution, numerical_distributions, _default_distribution,
      _numerical_distributions, _model, _fitted, heap, held, result, ctorArgs,
      curValue, prevValue, mutated, fitOk, fitTick>>

sdvVars == <<sdvMetadata, sdvTables, sdvFitted, sdvResult>>

vars == <<adapterVars, sdvVars>>

Ids == 1 .. (2 * MaxCols)
NotMutated == [now |-> FALSE, before |-> FALSE]
NoClasses == [f \in {} |-> "None"]
NoReport == [c \in {} |-> 0]
\* ctorArgs once the call after the construction has been made
PyUnset == PyVal("unset", "unset")
NoArgs == [numerical_distributions |-> PyUnset, default_distribution |-> PyUnset]

\* _model = None (class attribute)
NoModel ==
    [isNone |-> TRUE, fitted |-> FALSE, distribution |-> NoClasses,
     columns |-> <<>>, univariates |-> <<>>]

Outcome(op, kind) ==
    [op |-> op, kind |-> kind, rows |-> 0, columns |-> <<>>, libfits |-> 0]

\* ------------------------------------------------------------- constructor
\* What __init__ does with its arguments: the error it raises, or the four
\* attributes it sets.
__init__(numerical_distributions_arg, default_distribution_arg) ==
    IF Truthy(numerical_distributions_arg) /\ numerical_distributions_arg.type # "dict"
    THEN [error |-> "TypeError", public_default |-> PyNone, public_numerical |-> NoItems,
          default |-> "None", numerical |-> NoClasses]
    ELSE LET public_default == PyOr(default_distribution_arg, PyStr("beta"))
             public_numerical == PyOr(numerical_distributions_arg, PyDict(NoItems))
             items == PyOr(numerical_distributions_arg, PyDict(NoItems)).items
             default == _validate_distribution(public_default)
             bad == {f \in DOMAIN items : ~_validate_distribution(items[f]).ok}
         IN  IF ~default.ok \/ bad # {}
             THEN [error |-> "ValueError", public_default |-> public_default,
                   public_numerical |-> public_numerical.items,
                   default |-> "None", numerical |-> NoClasses]
             ELSE [error |-> "None", public_default |-> public_default,
                   public_numerical |-> public_numerical.items,
                   default |-> default.value,
                   numerical |-> [f \in DOMAIN items |->
                                    _validate_distribution(items[f]).value]]

\* Values tried for default_distribution.
DefaultArgs ==
    {PyNone, PyStr(""), PyStr("beta"), PyStr("norm"), PyStr("foo"),
     PyInstance("GaussianUnivariate")}

\* Values tried for one entry of numerical_distributions.
EntryArgs == {PyStr("gamma"), PyStr("foo"), PyInstance("GammaUnivariate")}

Dicts ==
    UNION {[S -> EntryArgs] : S \in {T \in SUBSET FieldNames : Cardinality(T) <= MaxFields}}

\* Values tried for numerical_distributions: None, dicts, and non-mappings,
\* empty and not.
NumericalArgs ==
    {PyNone, PyVal("list", "[]"), PyVal("list", "['norm']"), PyVal("str", ""),
     PyVal("int", "0"), PyVal("int", "1")}
    \cup {PyDict(d) : d \in Dicts}

Construct(nd, dd) ==
    /\ pc = "new"
    /\ \E r \in {__init__(nd, dd)} :
           /\ pc' = IF r.error = "None" THEN "ready" ELSE "failed"
           /\ result' = Outcome("__init__", IF r.error = "None" THEN "ok" ELSE r.error)
           /\ default_distribution' = r.public_default
           /\ numerical_distributions' = r.public_numerical
           /\ _default_distribution' = r.default
           /\ _numerical_distributions' = r.numerical
    /\ ctorArgs' = [numerical_distributions |-> nd, default_distribution |-> dd]
    /\ UNCHANGED <<_model, _fitted, heap, held, curValue, prevValue, mutated, fitOk,
                   fitTick>>
    /\ UNCHANGED sdvVars

\* --------------------------------------------------------------------- fit
NameOrder == <<NameA, NameAValue, NameAValueB, NameAValueValue>>

RECURSIVE Pick(_, _)
Pick(i, S) ==
    IF i > Len(NameOrder) THEN <<>>
    ELSE (IF i \in S THEN <<NameOrder[i]>> ELSE <<>>) \o Pick(i + 1, S)

\* Column lists of the processed tables tried: distinct names.
ColumnSeqs ==
    {Pick(1, S) : S \in {T \in SUBSET DOMAIN NameOrder :
                            Cardinality(T) >= 1 /\ Cardinality(T) <= MaxCols}}

\* The numbers a table can hold, and a value the library never learns.
Seeds == {0, 1}
Poison == Cardinality(Seeds)

\* processed_data: not a DataFrame at all, or a DataFrame; `seed` stands for
\* its numbers, `degenerate` for data the library cannot fit.
NoFrame == [isFrame |-> FALSE, columns |-> <<>>, seed |-> 0, degenerate |-> FALSE]
Frames ==
    {NoFrame} \cup
    {[isFrame |-> TRUE, columns |-> cols, seed |-> s, degenerate |-> FALSE] :
        cols \in ColumnSeqs, s \in Seeds} \cup
    {[isFrame |-> TRUE, columns |-> cols, seed |-> 0, degenerate |-> TRUE] :
        cols \in ColumnSeqs}

\* The loop of _fit over processed_data.columns.
RECURSIVE AssignColumns(_, _)
AssignColumns(numerical, columns) ==
    IF columns = <<>> THEN numerical
    ELSE LET column == Head(columns)
             column_name == Replace(column, DotValue, <<>>)
             next == IF column \notin DOMAIN numerical
                     THEN [c \in DOMAIN numerical \cup {column} |->
                             IF c = column
                             THEN Get(_numerical_distributions, column_name,
                                      _default_distribution)
                             ELSE numerical[c]]
                     ELSE numerical
         IN  AssignColumns(next, Tail(columns))

\* copulas.multivariate.GaussianMultivariate(distribution=...)
GaussianMultivariate(distribution) ==
    [isNone |-> FALSE, fitted |-> FALSE, distribution |-> distribution,
     columns |-> <<>>, univariates |-> <<>>]

\* The parameter the library learns for the i-th column of a table.
Learned(data, i) == (data.seed + i - 1) % Cardinality(Seeds)

\* GaussianMultivariate.fit: raises on data it cannot fit and leaves the
\* model unfitted; otherwise the model holds one parameter object a column.
LibFitRaises(data) == data.degenerate

LibFit(model, data) ==
    IF LibFitRaises(data) THEN model
    ELSE [model EXCEPT !.fitted = TRUE, !.columns = data.columns,
                       !.univariates = [i \in DOMAIN data.columns |-> i]]

\* _fit with the model created before the columns are read.
_fit_model_first(processed_data) ==
    IF ~processed_data.isFrame
    THEN [kind |-> "AttributeError", model |-> GaussianMultivariate(NoClasses),
          libfits |-> 0]
    ELSE LET numerical == AssignColumns(_numerical_distributions, processed_data.columns)
         IN  [kind |-> IF LibFitRaises(processed_data) THEN "LibraryError" ELSE "ok",
              model |-> LibFit(GaussianMultivariate(numerical), processed_data),
              libfits |-> 1]

\* _fit: the error raised (or "ok"), the model held afterwards, and the
\* number of calls of the library's fit.
_fit(processed_data) ==
    IF ~processed_data.isFrame
    THEN [kind |-> "AttributeError", model |-> _model, libfits |-> 0]
    ELSE LET numerical == AssignColumns(_numerical_distributions, processed_data.columns)
         IN  [kind |-> IF LibFitRaises(processed_data) THEN "LibraryError" ELSE "ok",
              model |-> LibFit(GaussianMultivariate(numerical), processed_data),
              libfits |-> 1]

\* Base class: _fitted is set when _fit returns.
BaseFitted(fitted, kind) == fitted \/ kind = "ok"

Fit(processed_data) ==
    /\ pc = "ready"
    /\ \E r \in {_fit(processed_data)} :
           /\ _model' = r.model
           /\ _fitted' = BaseFitted(_fitted, r.kind)
           /\ result' = [Outcome("fit", r.kind) EXCEPT !.libfits = r.libfits]
           /\ heap' = IF r.kind = "ok"
                      THEN [i \in Ids |-> IF i \in DOMAIN processed_data.columns
                                          THEN Learned(processed_data, i) ELSE 0]
                      ELSE [i \in Ids |-> IF i \in Range(r.model.univariates)
                                          THEN heap[i] ELSE 0]
    /\ held' = NoReport
    /\ curValue' = NoReport
    /\ prevValue' = NoReport
    /\ mutated' = NotMutated
    /\ fitOk' = (fitOk \/ (processed_data.isFrame /\ ~processed_data.degenerate))
    /\ fitTick' = 1 - fitTick
    /\ ctorArgs' = NoArgs
    /\ UNCHANGED <<pc, default_distribution, numerical_distributions,
                   _default_distribution, _numerical_distributions>>
    /\ UNCHANGED sdvVars

\* ------------------------------------------------------------------ sample
\* GaussianMultivariate.sample: refuses a model that was not fitted;
\* otherwise a table of num_rows rows with the columns of the fit input.
LibSample(model, num_rows) ==
    IF ~model.fitted THEN Outcome("sample", "NotFittedError")
    ELSE [Outcome("sample", "ok") EXCEPT !.rows = num_rows, !.columns = model.columns]

_sample(num_rows) ==
    IF _model.isNone THEN Outcome("sample", "AttributeError")
    ELSE LibSample(_model, num_rows)

Sample(num_rows) ==
    /\ pc = "ready"
    /\ result' = _sample(num_rows)
    /\ ctorArgs' = NoArgs
    /\ UNCHANGED <<pc, default_distribution, numerical_distributions,
                   _default_distribution, _numerical_distributions, _model, _fitted,
                   heap, held, curValue, prevValue, mutated, fitOk, fitTick>>
    /\ UNCHANGED sdvVars

\* ----------------------------------------------- get_learned_distributions
\* GaussianMultivariate.to_dict: the columns and the parameter objects of
\* the model's internal representation; fails on a model without them.
to_dict(model) ==
    IF model.isNone THEN Raise("AttributeError")
    ELSE IF ~model.fitted THEN Raise("LibraryError")
    ELSE Return([columns |-> model.columns, univariates |-> model.univariates])

\* The k-th smallest identity that is not in use.
NthFree(used, k) ==
    CHOOSE i \in Ids \ used : Cardinality({j \in Ids \ used : j < i}) = k - 1

\* No copy: the same objects.
deepcopy_shared(objects, h) == [objects |-> objects, heap |-> h]

\* copy.deepcopy of a list of parameter objects: new objects, same contents.
deepcopy(objects, h) ==
    LET fresh == [k \in DOMAIN objects |-> NthFree(Range(objects), k)]
    IN  [objects |-> fresh,
         heap |-> [i \in Ids |->
                     IF \E k \in DOMAIN objects : fresh[k] = i
                     THEN h[objects[CHOOSE k \in DOMAIN objects : fresh[k] = i]]
                     ELSE h[i]]]

\* The report built from the model's columns and the copied parameters.
LearnedDistributions(columns, univariates) ==
    [column \in Range(columns) |->
        [distribution |-> Get(numerical_distributions, column, default_distribution),
         learned_parameters |->
            univariates[CHOOSE i \in DOMAIN columns : columns[i] = column]]]

\* get_learned_distributions without its check of _fitted.
get_learned_distributions_unchecked ==
    LET parameters == to_dict(_model)
    IN  IF ~parameters.ok
        THEN [kind |-> parameters.error, report |-> NoReport, heap |-> heap]
        ELSE LET copy == deepcopy(parameters.value.univariates, heap)
             IN  [kind |-> "ok",
                  report |-> LearnedDistributions(parameters.value.columns,
                                                  copy.objects),
                  heap |-> copy.heap]

get_learned_distributions ==
    IF ~_fitted THEN [kind |-> "ValueError", report |-> NoReport, heap |-> heap]
    ELSE LET parameters == to_dict(_model)
         IN  IF ~parameters.ok
             THEN [kind |-> parameters.error, report |-> NoReport, heap |-> heap]
             ELSE LET copy == deepcopy(parameters.value.univariates, heap)
                  IN  [kind |-> "ok",
                       report |-> LearnedDistributions(parameters.value.columns,
                                                       copy.objects),
                       heap |-> copy.heap]

\* What a report says: its entries with the contents of the objects they
\* refer to.
ReportValue(report, h) ==
    [c \in DOMAIN report |->
        [distribution |-> report[c].distribution,
         learned_parameters |-> h[report[c].learned_parameters]]]

\* The parameters the model holds.
ModelValue(model, h) == [i \in DOMAIN model.univariates |-> h[model.univariates[i]]]

Referenced(model, report) ==
    Range(model.univariates) \cup {report[c].learned_parameters : c \in DOMAIN report}

GetLearned ==
    /\ pc = "ready"
    /\ \E r \in {get_learned_distributions} :
           /\ result' = Outcome("get_learned_distributions", r.kind)
           /\ held' = r.report
           /\ heap' = [i \in Ids |-> IF i \in Referenced(_model, r.report)
                                     THEN r.heap[i] ELSE 0]
           /\ curValue' = ReportValue(r.report, r.heap)
           /\ prevValue' = curValue
    /\ mutated' = [now |-> FALSE, before |-> mutated.now]
    /\ ctorArgs' = NoArgs
    /\ UNCHANGED <<pc, default_distribution, numerical_distributions,
                   _default_distribution, _numerical_distributions, _model, _fitted,
                   fitOk, fitTick>>
    /\ UNCHANGED sdvVars

\* The caller changes the report it was given: replaces the family name of
\* an entry, or overwrites the parameters an entry refers to.
Mutate(column, what) ==
    /\ pc = "ready"
    /\ column \in DOMAIN held
    /\ \/ /\ what = "entry"
          /\ held[column].distribution # PyStr("mutated")
          /\ held' = [held EXCEPT ![column].distribution = PyStr("mutated")]
          /\ heap' = heap
       \/ /\ what = "learned_parameters"
          /\ heap[held[column].learned_parameters] # Poison
          /\ heap' = [heap EXCEPT ![held[column].learned_parameters] = Poison]
          /\ held' = held
    /\ mutated' = [mutated EXCEPT !.now = TRUE]
    /\ UNCHANGED <<pc, default_distribution, numerical_distributions,
                   _default_distribution, _numerical_distributions, _model, _fitted,
                   result, ctorArgs, curValue, prevValue, fitOk, fitTick>>
    /\ UNCHANGED sdvVars

\* ----------------------------------------------------------- orchestrator
NoMetadata == [t \in {} |-> "None"]
NoTables == [t \in {} |-> 0]
NoSampled == [t \in {} |-> 0]

TableNames == {"users", "sessions", "transactions"}
NoParent == "None"

\* The columns of the demo tables, in the order given or reversed.
RECURSIVE Reverse(_)
Reverse(q) == IF q = <<>> THEN <<>> ELSE Reverse(Tail(q)) \o <<Head(q)>>

DemoColumns ==
    [users |-> <<"user_id", "country", "age">>,
     sessions |-> <<"session_id", "user_id", "device">>,
     transactions |-> <<"transaction_id", "session_id", "amount">>]

\* parent of every table; no table is its own ancestor.
RECURSIVE Depth(_, _, _)
Depth(metadata, t, fuel) ==
    IF metadata[t] = NoParent THEN 0
    ELSE IF fuel = 0 THEN Cardinality(TableNames)
    ELSE 1 + Depth(metadata, metadata[t], fuel - 1)

Metadatas ==
    {m \in [TableNames -> TableNames \cup {NoParent}] :
        \A t \in TableNames : Depth(m, t, Cardinality(TableNames)) < Cardinality(TableNames)}

TableSets ==
    {[t \in TableNames |->
        [rows |-> rows[t],
         columns |-> IF reversed THEN Reverse(DemoColumns[t]) ELSE DemoColumns[t]]] :
        rows \in [TableNames -> 1 .. MaxRows], reversed \in BOOLEAN}

Children(metadata, t) == {c \in DOMAIN metadata : metadata[c] = t}
Roots(metadata) == {t \in DOMAIN metadata : metadata[t] = NoParent}

\* The direct children only.
SampleFamily_one_level(metadata, t) == {t} \cup Children(metadata, t)

\* The tables sampled with table t: t, then the tables sampled with each
\* of its children.
RECURSIVE SampleFamily(_, _)
SampleFamily(metadata, t) ==
    {t} \cup UNION {SampleFamily(metadata, c) : c \in Children(metadata, t)}

\* The tables named by sample() with the flag ignored.
SampledNames_always_children(table_name, sample_children) ==
    SampleFamily(sdvMetadata, table_name)

\* The tables named by sample().
SampledNames(table_name, sample_children) ==
    IF sample_children THEN SampleFamily(sdvMetadata, table_name) ELSE {table_name}

\* sample(table_name, sample_children, reset_primary_keys): the requested
\* table has the rows of the original, a child the rows drawn for it.
sdv_sample(table_name, sample_children, reset_primary_keys, childRows) ==
    [t \in SampledNames(table_name, sample_children) |->
        [rows |-> IF t = table_name THEN sdvTables[t].rows ELSE childRows[t],
         columns |-> sdvTables[t].columns,
         keys |-> IF reset_primary_keys THEN "regenerated" ELSE "original"]]

RECURSIVE RootOf(_, _)
RootOf(metadata, t) ==
    IF metadata[t] = NoParent THEN t ELSE RootOf(metadata, metadata[t])

\* sample_all(): sample() of every top-level table, children included.
sdv_sample_all(childRows) ==
    [t \in UNION {SampleFamily(sdvMetadata, r) : r \in Roots(sdvMetadata)} |->
        sdv_sample(RootOf(sdvMetadata, t), TRUE, FALSE, childRows)[t]]

SdvCall(op, kind, table_name, sample_children, reset_primary_keys, sampled) ==
    [op |-> op, kind |-> kind, table_name |-> table_name,
     sample_children |-> sample_children, reset_primary_keys |-> reset_primary_keys,
     sampled |-> sampled]

\* fit(metadata, tables): every table is fitted, or the call fails naming
\* the table that could not be.
SdvFit(metadata, tables, failing) ==
    /\ ~sdvFitted
    /\ IF failing = NoParent
       THEN /\ sdvMetadata' = metadata
            /\ sdvTables' = tables
            /\ sdvFitted' = TRUE
            /\ sdvResult' = SdvCall("fit", "ok", NoParent, FALSE, FALSE, NoSampled)
       ELSE /\ sdvResult' = SdvCall("fit", "FitError", failing, FALSE, FALSE, NoSampled)
            /\ UNCHANGED <<sdvMetadata, sdvTables, sdvFitted>>
    /\ UNCHANGED adapterVars

SdvSample(table_name, sample_children, reset_primary_keys) ==
    /\ IF ~sdvFitted
       THEN sdvResult' = SdvCall("sample", "NotFittedError", table_name, sample_children,
                                 reset_primary_keys, NoSampled)
       ELSE \E childRows \in [SampledNames(table_name, sample_children) \ {table_name}
                                 -> 0 .. MaxRows] :
               sdvResult' = SdvCall("sample", "ok", table_name, sample_children,
                                    reset_primary_keys,
                                    sdv_sample(table_name, sample_children,
                                               reset_primary_keys, childRows))
    /\ UNCHANGED <<sdvMetadata, sdvTables, sdvFitted>>
    /\ UNCHANGED adapterVars

SdvSampleAll ==
    /\ IF ~sdvFitted
       THEN sdvResult' = SdvCall("sample_all", "NotFittedError", NoParent, TRUE, FALSE,
                                 NoSampled)
       ELSE \E childRows \in [TableNames \ Roots(sdvMetadata) -> 0 .. MaxRows] :
               sdvResult' = SdvCall("sample_all", "ok", NoParent, TRUE, FALSE,
                                    sdv_sample_all(childRows))
    /\ UNCHANGED <<sdvMetadata, sdvTables, sdvFitted>>
    /\ UNCHANGED adapterVars

SdvIdle ==
    /\ sdvMetadata = NoMetadata
    /\ sdvTables = NoTables
    /\ sdvFitted = FALSE
    /\ sdvResult = [op |-> "none", kind |-> "ok", table_name |-> "None",
                    sample_children |-> FALSE, reset_primary_keys |-> FALSE,
                    sampled |-> NoSampled]

\* ------------------------------------------------------------ specification
AdapterInit ==
    /\ pc = "new"
    /\ default_distribution = PyNone
    /\ numerical_distributions = NoItems
    /\ _default_distribution = "None"
    /\ _numerical_distributions = NoClasses
    /\ _model = NoModel
    /\ _fitted = FALSE
    /\ heap = [i \in Ids |-> 0]
    /\ held = NoReport
    /\ result = Outcome("none", "ok")
    /\ ctorArgs = NoArgs
    /\ curValue = NoReport
    /\ prevValue = NoReport
    /\ mutated = NotMutated
    /\ fitOk = FALSE
    /\ fitTick = 0

Init == AdapterInit /\ SdvIdle

\* The life of one synthesizer: construction, then fit, sample and
\* get_learned_distributions in any order.
Next ==
    \/ /\ pc = "new"
       /\ \E nd \in NumericalArgs, dd \in DefaultArgs : Construct(nd, dd)
    \/ /\ pc = "ready"
       /\ \E processed_data \in Frames : Fit(processed_data)
    \/ \E num_rows \in 1 .. MaxRows : Sample(num_rows)
    \/ GetLearned

Spec == Init /\ [][Next]_vars

\* The same life with a caller that changes the reports it is given.
ReportColumns == {NameA, NameAValue, NameAValueB}
ReportFrames == {f \in Frames : Range(f.columns) \subseteq ReportColumns}
ReportNumericalArgs == {PyNone, PyDict([f \in {NameA} |-> PyStr("gamma")])}

NextReport ==
    \/ /\ pc = "new"
       /\ \E nd \in ReportNumericalArgs : Construct(nd, PyNone)
    \/ /\ pc = "ready"
       /\ \E processed_data \in ReportFrames : Fit(processed_data)
    \/ GetLearned
    \/ \E column \in DOMAIN held, what \in {"entry", "learned_parameters"} :
          Mutate(column, what)

SpecReport == Init /\ [][NextReport]_vars

\* The orchestrator: fit, then sample and sample_all in any order.
NextSDV ==
    \/ /\ ~sdvFitted
       /\ \E metadata \in Metadatas, tables \in TableSets,
             failing \in TableNames \cup {NoParent} : SdvFit(metadata, tables, failing)
    \/ \E table_name \in TableNames, sample_children \in BOOLEAN,
          reset_primary_keys \in BOOLEAN :
          SdvSample(table_name, sample_children, reset_primary_keys)
    \/ SdvSampleAll

SpecSDV == Init /\ [][NextSDV]_vars

\* ================================================================== claims

\* ---- constructor -------------------------------------------------------
Recognized(v) == v.type = "str" /\ v.val \in DOMAIN _DISTRIBUTIONS
UnrecognizedName(v) == v.type = "str" /\ v.val \notin DOMAIN _DISTRIBUTIONS
Constructing == result.op = "__init__"
ArgEntries == ctorArgs.numerical_distributions.items

\* C1: a construction given a family name outside the six recognized ones,
\* as default_distribution or as a value of numerical_distributions, fails
\* with a configuration error and returns no instance; a construction given
\* recognized names only (or none) succeeds.
C1_UnrecognizedNameFails ==
    Constructing =>
        /\ (\/ UnrecognizedName(ctorArgs.default_distribution)
            \/ \E f \in DOMAIN ArgEntries : UnrecognizedName(ArgEntries[f]))
           => (result.kind \in {"ValueError", "TypeError"} /\ pc = "failed")
        /\ (/\ ctorArgs.default_distribution.type = "NoneType"
               \/ Recognized(ctorArgs.default_distribution)
            /\ ctorArgs.numerical_distributions.type \in {"NoneType", "dict"}
            /\ \A f \in DOMAIN ArgEntries : Recognized(ArgEntries[f]))
           => (result.kind = "ok" /\ pc = "ready")

\* C2: a construction whose numerical_distributions is neither None nor a
\* mapping fails with a configuration error, empty and falsy values included.
C2_NonMappingFails ==
    (Constructing /\ ctorArgs.numerical_distributions.type \notin {"NoneType", "dict"})
        => (result.kind \in {"ValueError", "TypeError"} /\ pc = "failed")

IsInstance(v) == v.type = "Univariate"

\* C8: a construction is accepted when its distributions are given as
\* copulas.univariate instances instead of recognized names.
C8_InstanceAccepted ==
    (/\ Constructing
     /\ ctorArgs.numerical_distributions.type \in {"NoneType", "dict"}
     /\ \/ Recognized(ctorArgs.default_distribution)
        \/ IsInstance(ctorArgs.default_distribution)
        \/ ctorArgs.default_distribution.type = "NoneType"
     /\ \A f \in DOMAIN ArgEntries : Recognized(ArgEntries[f]) \/ IsInstance(ArgEntries[f])
     /\ \/ IsInstance(ctorArgs.default_distribution)
        \/ \E f \in DOMAIN ArgEntries : IsInstance(ArgEntries[f]))
        => (result.kind = "ok" /\ pc = "ready")

\* ---- calls before a fit ------------------------------------------------
\* C3: while no fit has succeeded, get_learned_distributions fails with the
\* usage error and hands out no report, and sampling fails and hands out no
\* table.
C3_UnfittedCallsFail ==
    ~fitOk =>
        /\ result.op = "get_learned_distributions"
              => (result.kind = "ValueError" /\ held = NoReport)
        /\ result.op = "sample"
              => (/\ result.kind \in {"AttributeError", "NotFittedError"}
                  /\ result.rows = 0
                  /\ result.columns = <<>>)

\* A failed fit left a library model behind, and the report is still refused.
C3_Witness ==
    /\ ~fitOk
    /\ ~_model.isNone
    /\ result.op = "get_learned_distributions"
    /\ result.kind = "ValueError"

\* ---- families ----------------------------------------------------------
\* C4: the report of a fitted instance has, for every column of the fit
\* input, the family that fit used for that column.
C4_ReportedIsUsed ==
    (result.op = "get_learned_distributions" /\ result.kind = "ok") =>
        \A c \in Range(_model.columns) :
            /\ c \in DOMAIN held
            /\ Recognized(held[c].distribution)
            /\ _DISTRIBUTIONS[held[c].distribution.val] = _model.distribution[c]

\* The family the claim C9 gives a column.
ClaimedFamily(c) ==
    IF c \in DOMAIN _numerical_distributions THEN _numerical_distributions[c]
    ELSE IF StripSuffix(c, DotValue) \in DOMAIN _numerical_distributions
         THEN _numerical_distributions[StripSuffix(c, DotValue)]
         ELSE _default_distribution

\* C9: fit gives every column its own override, else the override of the
\* name without one trailing '.value', else the default family.
C9_SuffixOnly ==
    ~_model.isNone =>
        \A c \in DOMAIN _model.distribution : _model.distribution[c] = ClaimedFamily(c)

\* ---- failed fit --------------------------------------------------------
\* C10: a fit that fails on an instance holding a fitted model leaves that
\* model and its parameters as they were when it fails before the model is
\* replaced, leaves an unfitted model that neither samples nor reports when
\* the library's fit fails, raises in both cases, and calls the library's
\* fit at most once.
C10_FailedRefit ==
    [][(fitTick' # fitTick /\ _model.fitted /\ result'.kind # "ok") =>
          /\ result'.op = "fit"
          /\ result'.kind \in {"AttributeError", "LibraryError"}
          /\ result'.libfits <= 1
          /\ result'.libfits = 0 =>
                (_model' = _model /\ ModelValue(_model', heap') = ModelValue(_model, heap))
          /\ result'.libfits = 1 =>
                (/\ ~_model'.fitted
                 /\ _model' # _model
                 /\ ~to_dict(_model').ok
                 /\ LibSample(_model', 1).kind # "ok")]_vars

\* A fit failed in the library on an instance that had been fitted.
C10_Witness ==
    /\ result.op = "fit"
    /\ result.kind = "LibraryError"
    /\ fitOk
    /\ ~_model.fitted

\* ---- report ------------------------------------------------------------
\* C5: two reports with no fit between them say the same, whatever the
\* caller did to the first, and the model's parameters stay what the last
\* report said.
C5_ReportsAgree ==
    /\ (prevValue # NoReport /\ curValue # NoReport) => curValue = prevValue
    /\ curValue # NoReport =>
          \A i \in DOMAIN _model.columns :
              heap[_model.univariates[i]] = curValue[_model.columns[i]].learned_parameters

\* A second report was taken after the caller changed the first.
C5_Witness ==
    /\ prevValue # NoReport
    /\ curValue # NoReport
    /\ mutated.before

\* ---- orchestrator ------------------------------------------------------
\* t is table_name or has it among its ancestors.
RECURSIVE DescendsFrom(_, _, _)
DescendsFrom(metadata, t, ancestor) ==
    \/ t = ancestor
    \/ metadata[t] # NoParent /\ DescendsFrom(metadata, metadata[t], ancestor)

SameShape(sampled, original) ==
    /\ sampled.rows = original.rows
    /\ Len(sampled.columns) = Len(original.columns)
    /\ sampled.columns = original.columns

\* C6: after a fit, sample(t, sample_children=False) returns the data of t
\* alone, with the rows, the columns and the column order of the input
\* table t.
C6_SampleAlone ==
    (sdvResult.op = "sample" /\ sdvResult.kind = "ok" /\ ~sdvResult.sample_children) =>
        /\ DOMAIN sdvResult.sampled = {sdvResult.table_name}
        /\ SameShape(sdvResult.sampled[sdvResult.table_name],
                     sdvTables[sdvResult.table_name])

\* A table with a parent and a child was sampled alone.
C6_Witness ==
    /\ sdvResult.op = "sample"
    /\ sdvResult.kind = "ok"
    /\ ~sdvResult.sample_children
    /\ sdvMetadata[sdvResult.table_name] # NoParent
    /\ Children(sdvMetadata, sdvResult.table_name) # {}

\* C7: after a fit, sample_all() returns every root with all its
\* descendants, and sample(root, reset_primary_keys=True) with children
\* returns that root with all its descendants; a root has the rows of its
\* input table.
C7_SampleWithChildren ==
    /\ (sdvResult.op = "sample_all" /\ sdvResult.kind = "ok") =>
          /\ DOMAIN sdvResult.sampled =
                {t \in TableNames : \E r \in Roots(sdvMetadata) :
                                        DescendsFrom(sdvMetadata, t, r)}
          /\ \A r \in Roots(sdvMetadata) :
                sdvResult.sampled[r].rows = sdvTables[r].rows
    /\ (/\ sdvResult.op = "sample"
        /\ sdvResult.kind = "ok"
        /\ sdvResult.sample_children
        /\ sdvResult.reset_primary_keys
        /\ sdvResult.table_name \in Roots(sdvMetadata)) =>
          /\ DOMAIN sdvResult.sampled =
                {t \in TableNames : DescendsFrom(sdvMetadata, t, sdvResult.table_name)}
          /\ sdvResult.sampled[sdvResult.table_name].rows =
                sdvTables[sdvResult.table_name].rows

\* The demo: users, its child sessions, and sessions' child transactions,
\* sampled from users with the keys reset.
C7_Witness ==
    /\ sdvResult.op = "sample"
    /\ sdvResult.kind = "ok"
    /\ sdvResult.sample_children
    /\ sdvResult.reset_primary_keys
    /\ sdvResult.table_name = "users"
    /\ sdvMetadata["sessions"] = "users"
    /\ sdvMetadata["transactions"] = "sessions"
    /\ DOMAIN sdvResult.sampled = TableNames

====
